---- MODULE Spec2Model ----
(***************************************************************************)
(* Model of the document reminder engine of flota-documentos:             *)
(*   reminders.py  main(dry_run)          the scheduled CLI check          *)
(*   app.py        page "Recordatorios"   the manual check of the UI       *)
(*   app.py        "Guardar / Renovar"    the document save of the UI      *)
(* over the SQLite tables vehiculos, documentos and notificaciones.        *)
(***************************************************************************)
EXTENDS Integers, Sequences, FiniteSets, TLC

\* ------------------------------------------------------------------------
\* Bounds of the model
\* ------------------------------------------------------------------------
MaxDay == 30        \* last calendar day the clock reaches
MaxDocs == 2        \* rows the documentos table can hold (AUTOINCREMENT ids)
MaxEvents == 5      \* document saves, day changes and check runs in one behaviour
MaxAbsDays == 60    \* the day counts classified run from -MaxAbsDays to MaxAbsDays

\* Numbers of the source
MISSING_SCORE == -9999          \* app.py get_vehicle_urgency: d_cmp of a missing document
BEST_DAYS_INIT == 1000000000    \* app.py get_vehicle_urgency: best_days = 10**9

\* Inputs of the environment
DaySteps == {15}                \* days that pass between two observations
ExpiryOffsets == {5, 20, 35}    \* date picked in the form, relative to today
Forms == {<<1, 1>>, <<2, 1>>}   \* the forms used: <<vehicle id, index in DOC_TYPES>>
Runners == {"cli", "ui"}        \* reminders.py main / app.py manual check

\* The mail settings of the environment, each given by whether it is set:
\* all set, SMTP_HOST not set, EMAIL_TO not set.
Configs ==
  { [smtp_host |-> TRUE, smtp_port |-> TRUE, email_from |-> TRUE, email_to |-> TRUE],
    [smtp_host |-> FALSE, smtp_port |-> TRUE, email_from |-> TRUE, email_to |-> TRUE],
    [smtp_host |-> TRUE, smtp_port |-> TRUE, email_from |-> TRUE, email_to |-> FALSE] }

\* ------------------------------------------------------------------------
\* Values
\* ------------------------------------------------------------------------
None == <<>>                    \* Python None / SQL NULL of an optional value
Some(x) == <<x>>
NULL == "NULL"                  \* SQL NULL of a TEXT state column

DOC_TYPES ==
  << "Permiso de Circulacion",
     "Cert. Revision Tecnica c/6 meses",
     "Cert. Emision Contaminantes c/6 meses",
     "SOAP (1 vez al ano)",
     "Mantencion General" >>

\* The fleet: rows of vehiculos.  patente and marca are given by their rank
\* in the collation order, the only thing the two ORDER BY clauses use.
FleetRows ==
  { [id |-> 1, patente |-> 1, marca |-> 2],
    [id |-> 2, patente |-> 2, marca |-> 1] }

DocIds == 1..MaxDocs

\* A stored date string.  fmt "date" is YYYY-MM-DD of day number `day`,
\* "datetime" is YYYY-MM-DDTHH:MM:SS of that day, "text" is a string that is
\* no ISO date, "null" is NULL or ''.
NoDate == [fmt |-> "null", day |-> 0]
isoformat(n) == [fmt |-> "date", day |-> n]

\* ------------------------------------------------------------------------
\* Pure functions of reminders.py
\* ------------------------------------------------------------------------
parse_iso_date(s) ==
  IF s.fmt \in {"date", "datetime"} THEN Some(s.day) ELSE None

days_left(expiry, today_) ==
  IF expiry = None THEN None ELSE Some(expiry[1] - today_)

\* A classifier with Amarillo and Verde swapped.
state_from_days_swapped(d) ==
  IF d = None THEN "Rojo"
  ELSE IF d[1] <= 15 THEN "Rojo"
  ELSE IF d[1] <= 30 THEN "Verde"
  ELSE "Amarillo"

state_from_days(d) ==
  IF d = None THEN "Rojo"
  ELSE IF d[1] <= 15 THEN "Rojo"
  ELSE IF d[1] <= 30 THEN "Amarillo"
  ELSE "Verde"

human_days_label(d) ==
  IF d = None THEN [text |-> "No registrado", n |-> 0]
  ELSE IF d[1] < 0 THEN
    (IF -d[1] = 1 THEN [text |-> "Vencido hace 1 dia", n |-> 1]
                  ELSE [text |-> "Vencido hace N dias", n |-> -d[1]])
  ELSE IF d[1] = 0 THEN [text |-> "Hoy expira", n |-> 0]
  ELSE IF d[1] = 1 THEN [text |-> "1 dia para expirar", n |-> 1]
  ELSE [text |-> "N dias para expirar", n |-> d[1]]

\* ------------------------------------------------------------------------
\* Pure functions of app.py
\* ------------------------------------------------------------------------
\* A parser that takes a string that is no date for the day 0.
app_parse_iso_date_lenient(s) ==
  IF s.fmt = "null" THEN None ELSE Some(s.day)

app_parse_iso_date(s) ==
  IF s.fmt = "null" THEN None
  ELSE IF s.fmt \in {"date", "datetime"} THEN Some(s.day) ELSE None

\* A day count that takes the day of expiry for a day past.
app_days_left_exclusive(expiry, today_) ==
  IF expiry = None THEN None ELSE Some(expiry[1] - today_ - 1)

app_days_left(expiry, today_) ==
  IF expiry = None THEN None ELSE Some(expiry[1] - today_)

\* A classifier whose Rojo ends below 15.
app_state_from_days_below_15(d) ==
  IF d = None THEN <<"Rojo", "badge-red">>
  ELSE IF d[1] < 15 THEN <<"Rojo", "badge-red">>
  ELSE IF d[1] <= 30 THEN <<"Amarillo", "badge-yellow">>
  ELSE <<"Verde", "badge-green">>

app_state_from_days(d) ==
  IF d = None THEN <<"Rojo", "badge-red">>
  ELSE IF d[1] <= 15 THEN <<"Rojo", "badge-red">>
  ELSE IF d[1] <= 30 THEN <<"Amarillo", "badge-yellow">>
  ELSE <<"Verde", "badge-green">>

app_human_days_label(d) ==
  IF d = None THEN [text |-> "No registrado", n |-> 0]
  ELSE IF d[1] < 0 THEN
    (IF -d[1] = 1 THEN [text |-> "Vencido hace 1 dia", n |-> 1]
                  ELSE [text |-> "Vencido hace N dias", n |-> -d[1]])
  ELSE IF d[1] = 0 THEN [text |-> "Hoy expira", n |-> 0]
  ELSE IF d[1] = 1 THEN [text |-> "1 dia para expirar", n |-> 1]
  ELSE [text |-> "N dias para expirar", n |-> d[1]]

\* ------------------------------------------------------------------------
\* The decision rules of one check of a document (the same expressions in
\* reminders.py and in app.py)
\* ------------------------------------------------------------------------
\* A rule that fires on every change of state.
want_state_notify_any_change(last_state, state) ==
  /\ last_state # NULL
  /\ last_state # state

want_state_notify(last_state, state) ==
  /\ last_state # NULL
  /\ last_state # state
  /\ <<last_state, state>> \in {<<"Verde", "Amarillo">>, <<"Amarillo", "Rojo">>}

\* A rule that fires at 5 days or less.
want_5_notify_at_most_5(d, last_notified_5_expiry, fecha_vencimiento) ==
  /\ d # None
  /\ d[1] <= 5
  /\ last_notified_5_expiry # fecha_vencimiento

\* A rule that does not look at the marker.
want_5_notify_no_marker(d, last_notified_5_expiry, fecha_vencimiento) ==
  d = Some(5)

want_5_notify(d, last_notified_5_expiry, fecha_vencimiento) ==
  /\ d = Some(5)
  /\ last_notified_5_expiry # fecha_vencimiento

\* ------------------------------------------------------------------------
\* The hand-over to the mail transport
\* ------------------------------------------------------------------------
\* A hand-over that sends whenever something is pending.
after_scan_ignores_dry_run(pending, dry_run) ==
  IF pending = <<>> THEN "done" ELSE "send"

\* Where a run goes after the commit of the scan: the two early returns
\* (nothing pending, preview) or the send.
after_scan(pending, dry_run) ==
  IF pending = <<>> \/ dry_run THEN "done" ELSE "send"

\* A check of the settings that looks at the host only.
load_config_host_only(cfg) ==
  cfg.smtp_host

\* reminders.py load_config: TRUE when it returns the settings, FALSE when it
\* raises SystemExit("Falta configuracion SMTP ...").
load_config(cfg) ==
  ~(~cfg.smtp_host \/ ~cfg.smtp_port \/ ~cfg.email_from \/ ~cfg.email_to)

\* smtplib with the settings as read: without a host no connection is made
\* and the first command raises; without recipients send_message raises.
can_deliver(cfg) ==
  cfg.smtp_host /\ cfg.email_to

\* The exit status of the process of a run that ended: main returned 0, or
\* SystemExit with a message or an uncaught exception left it.
exit_status(pc) ==
  IF pc = "done" THEN 0 ELSE 1

\* ------------------------------------------------------------------------
\* State
\* ------------------------------------------------------------------------
VARIABLES
  today,            \* date.today()
  vehiculos,        \* ids of the rows of table vehiculos
  documentos,       \* table documentos: id -> None or Some(row)
  doc_seq,          \* last AUTOINCREMENT id handed out for documentos
  documentos_historial, \* table documentos_historial: id -> None (deleted) or Some(row)
  notificaciones,   \* table notificaciones as committed: documento_id -> None or Some(row)
  lock,             \* the connection holding the write lock of the database file
  run,              \* per runner: position and locals of its check run
  runCount,         \* history: number of check runs started so far
  events,           \* history: number of saves, day changes and run starts so far
  prev,             \* history: the report of the run before the one started last
  dirty,            \* history: a document or the date changed since the last run started
  sent5,            \* history: per document, the expiry strings of the five-day mails delivered
  escSent,          \* history: per document, an escalation mail was delivered since
                    \*          the committed last_state last changed
  calc              \* what the page last rendered computed: its input and its result

vars == <<today, vehiculos, documentos, doc_seq, documentos_historial, notificaciones,
          lock, run, runCount, events, prev, dirty, sent5, escSent, calc>>

store == <<vehiculos, documentos, doc_seq, documentos_historial>>
counts == <<runCount, events, prev, dirty>>
mails == <<sent5, escSent>>

NoTx == [i \in DocIds |-> None]

\* Nothing rendered yet.
NoCalc == [op |-> "none"]

IdleRun ==
  [pc |-> "idle", dry_run |-> FALSE, todo |-> <<>>, cur |-> None,
   pending |-> <<>>, tx |-> NoTx, cfg |-> None, sent |-> 0, committed |-> FALSE,
   seq |-> 0, quiet |-> FALSE]

\* What is known of a run after it ended.
Report(rec) ==
  [pc |-> rec.pc, dry_run |-> rec.dry_run, pending |-> rec.pending, sent |-> rec.sent,
   committed |-> rec.committed]

Busy(r) == run[r].pc \in {"scan", "write", "send", "mark"}

Init ==
  /\ today = 0
  /\ vehiculos = {v.id : v \in FleetRows}
  /\ documentos = [i \in DocIds |-> None]
  /\ doc_seq = 0
  /\ documentos_historial = <<>>
  /\ notificaciones = [i \in DocIds |-> None]
  /\ lock = "none"
  /\ run = [r \in Runners |-> IdleRun]
  /\ runCount = 0
  /\ events = 0
  /\ prev = Report(IdleRun)
  /\ dirty = FALSE
  /\ sent5 = [i \in DocIds |-> {}]
  /\ escSent = [i \in DocIds |-> FALSE]
  /\ calc = NoCalc

\* ------------------------------------------------------------------------
\* Data access
\* ------------------------------------------------------------------------
SetMax(S) == CHOOSE x \in S : \A y \in S : y <= x

\* SELECT ... FROM vehiculos ORDER BY <key>: the rows of V sorted by key.
OrderBy(V, key) ==
  CHOOSE s \in [1..Cardinality(V) -> V] :
    /\ \A i, j \in 1..Cardinality(V) : i # j => s[i] # s[j]
    /\ \A i, j \in 1..Cardinality(V) : i < j => key[s[i]] <= key[s[j]]

ByPatente == [v \in {w.id : w \in FleetRows} |->
                (CHOOSE w \in FleetRows : w.id = v).patente]
ByMarca == [v \in {w.id : w \in FleetRows} |->
                (CHOOSE w \in FleetRows : w.id = v).marca]

\* reminders.py: SELECT id, patente, proyecto FROM vehiculos ORDER BY patente
cli_vehicles == OrderBy(vehiculos, ByPatente)
\* app.py fetch_vehicles: ORDER BY marca, modelo, patente
fetch_vehicles == OrderBy(vehiculos, ByMarca)

\* docs_by_type[tipo] / fetch_vehicle_docs(conn, vid).get(tipo): the row of
\* the vehicle with this tipo (the last one read wins), None if there is none.
fetch_vehicle_doc(vid, tipo) ==
  LET ids == {i \in DOMAIN documentos : /\ documentos[i] # None
                             /\ documentos[i][1].vehiculo_id = vid
                             /\ documentos[i][1].tipo = tipo}
  IN IF ids = {} THEN None ELSE documentos[SetMax(ids)]

\* A loop that skips the absent documents only.
docs_to_check_absent_only(vid) ==
  LET all == [i \in 1..Len(DOC_TYPES) |-> fetch_vehicle_doc(vid, DOC_TYPES[i])]
      kept == SelectSeq(all, LAMBDA x : x # None)
  IN [i \in 1..Len(kept) |-> kept[i][1]]

\* The inner loop over DOC_TYPES for one vehicle: the documents that are not
\* skipped by `if not doc or not doc["fecha_vencimiento"]: continue`.
docs_to_check(vid) ==
  LET all == [i \in 1..Len(DOC_TYPES) |-> fetch_vehicle_doc(vid, DOC_TYPES[i])]
      kept == SelectSeq(all, LAMBDA x : x # None /\ x[1].fecha_vencimiento.fmt # "null")
  IN [i \in 1..Len(kept) |-> kept[i][1]]

\* A scan that stops after the first vehicle.
scan_list_first_vehicle(vs) ==
  IF vs = <<>> THEN <<>> ELSE docs_to_check(Head(vs))

RECURSIVE scan_list(_)
scan_list(vs) ==
  IF vs = <<>> THEN <<>> ELSE docs_to_check(Head(vs)) \o scan_list(Tail(vs))

\* What connection r reads: the committed table overlaid with its own
\* uncommitted writes.
View(r) == [i \in DocIds |-> IF run[r].tx[i] # None THEN run[r].tx[i] ELSE notificaciones[i]]

\* An upsert that leaves an existing row alone.
snapshot_upsert_insert_only(n, state, fecha_vencimiento, now) ==
  IF n # None
    THEN n
    ELSE Some([last_state |-> state, last_expiry |-> fecha_vencimiento,
               last_notified_state |-> NULL, last_notified_5_expiry |-> NoDate,
               last_checked_at |-> now])

\* An upsert whose UPDATE leaves last_state as it was.
snapshot_upsert_keeps_state(n, state, fecha_vencimiento, now) ==
  IF n # None
    THEN Some([n[1] EXCEPT !.last_expiry = fecha_vencimiento,
                           !.last_checked_at = now])
    ELSE Some([last_state |-> state, last_expiry |-> fecha_vencimiento,
               last_notified_state |-> NULL, last_notified_5_expiry |-> NoDate,
               last_checked_at |-> now])

\* An upsert that replaces the row (INSERT OR REPLACE).
snapshot_upsert_replace(n, state, fecha_vencimiento, now) ==
  Some([last_state |-> state, last_expiry |-> fecha_vencimiento,
        last_notified_state |-> NULL, last_notified_5_expiry |-> NoDate,
        last_checked_at |-> now])

\* The tracking upsert of one check ("Snapshot state").
snapshot_upsert(n, state, fecha_vencimiento, now) ==
  IF n # None
    THEN Some([n[1] EXCEPT !.last_state = state,
                           !.last_expiry = fecha_vencimiento,
                           !.last_checked_at = now])
    ELSE Some([last_state |-> state, last_expiry |-> fecha_vencimiento,
               last_notified_state |-> NULL, last_notified_5_expiry |-> NoDate,
               last_checked_at |-> now])

\* A marking that sets last_notified_state for every message sent.
mark_notified_always_state(row, p) ==
  IF row = None THEN None
  ELSE LET r1 == [row[1] EXCEPT !.last_notified_state = p.state]
           r2 == IF p.want_5_notify
                   THEN [r1 EXCEPT !.last_notified_5_expiry = p.expiry_s] ELSE r1
       IN Some(r2)

\* A marking that writes the state the document came from.
mark_notified_state_before(row, p) ==
  IF row = None THEN None
  ELSE LET r1 == IF p.want_state_notify
                   THEN [row[1] EXCEPT !.last_notified_state = p.body.cambio[1]] ELSE row[1]
           r2 == IF p.want_5_notify
                   THEN [r1 EXCEPT !.last_notified_5_expiry = p.expiry_s] ELSE r1
       IN Some(r2)

\* "Mark notified" of one pending entry p on the row of its document.
mark_notified(row, p) ==
  IF row = None THEN None
  ELSE LET r1 == IF p.want_state_notify
                   THEN [row[1] EXCEPT !.last_notified_state = p.state] ELSE row[1]
           r2 == IF p.want_5_notify
                   THEN [r1 EXCEPT !.last_notified_5_expiry = p.expiry_s] ELSE r1
       IN Some(r2)

RECURSIVE mark_all(_, _)
mark_all(table, ps) ==
  IF ps = <<>> THEN table
  ELSE LET p == Head(ps)
       IN mark_all([table EXCEPT ![p.doc_id] = mark_notified(table[p.doc_id], p)], Tail(ps))

\* An entry whose subject names the state the document had before.
pending_entry_old_state_subject(v, doc, state, d, label, last_state, wsn, w5n) ==
  [doc_id |-> doc.id,
   subj |-> [patente |-> v, tipo |-> doc.tipo, state |-> last_state,
             vence |-> doc.fecha_vencimiento],
   body |-> [patente |-> v, tipo |-> doc.tipo, vence |-> doc.fecha_vencimiento,
             state |-> state, label |-> label, alerta5 |-> w5n,
             cambio |-> IF wsn THEN <<last_state, state>> ELSE <<>>],
   state |-> state, expiry_s |-> doc.fecha_vencimiento,
   want_state_notify |-> wsn, want_5_notify |-> w5n]

\* One entry of the pending list with its subject and body.
pending_entry(v, doc, state, d, label, last_state, wsn, w5n) ==
  [doc_id |-> doc.id,
   subj |-> [patente |-> v, tipo |-> doc.tipo, state |-> state,
             vence |-> doc.fecha_vencimiento],
   body |-> [patente |-> v, tipo |-> doc.tipo, vence |-> doc.fecha_vencimiento,
             state |-> state, label |-> label, alerta5 |-> w5n,
             cambio |-> IF wsn THEN <<last_state, state>> ELSE <<>>],
   state |-> state, expiry_s |-> doc.fecha_vencimiento,
   want_state_notify |-> wsn, want_5_notify |-> w5n]

\* ------------------------------------------------------------------------
\* Environment: the document form of the UI and the calendar
\* ------------------------------------------------------------------------
\* A form that takes every document for a new one.
existing_doc_id_never(doc) ==
  None

\* doc_id = doc["id"] if doc else None
existing_doc_id(doc) ==
  IF doc # None THEN Some(doc[1].id) ELSE None

\* A history entry that leaves the expiry out.
history_entry_without_expiry(vid, doc, ts) ==
  [vehiculo_id |-> vid, documento_id |-> doc.id, tipo |-> doc.tipo,
   fecha_vencimiento |-> NoDate, cambio_tipo |-> "update", changed_at |-> ts]

\* The row of documentos_historial written before the UPDATE of the row doc.
history_entry(vid, doc, ts) ==
  [vehiculo_id |-> vid, documento_id |-> doc.id, tipo |-> doc.tipo,
   fecha_vencimiento |-> doc.fecha_vencimiento, cambio_tipo |-> "update",
   changed_at |-> ts]

\* app.py "Guardar / Renovar" of the form of (vid, DOC_TYPES[ti]) with the
\* date today + off picked: UPDATE of the existing row, INSERT otherwise.
SaveDoc(vid, ti, off) ==
  LET tipo == DOC_TYPES[ti]
      doc == fetch_vehicle_doc(vid, tipo)
      doc_id == existing_doc_id(doc)
      new_exp == isoformat(today + off)
  IN /\ \A r \in Runners : ~Busy(r)
     /\ events < MaxEvents
     /\ vid \in vehiculos
     /\ IF doc_id # None
          THEN /\ documentos_historial' =
                    Append(documentos_historial, Some(history_entry(vid, doc[1], today)))
               /\ documentos' = [documentos EXCEPT ![doc[1].id] =
                                   Some([doc[1] EXCEPT !.fecha_vencimiento = new_exp])]
               /\ doc_seq' = doc_seq
          ELSE /\ doc_seq < MaxDocs
               /\ documentos_historial' = documentos_historial
               /\ documentos' = [documentos EXCEPT ![doc_seq + 1] =
                                   Some([id |-> doc_seq + 1, vehiculo_id |-> vid,
                                         tipo |-> tipo, fecha_vencimiento |-> new_exp])]
               /\ doc_seq' = doc_seq + 1
     /\ events' = events + 1
     /\ dirty' = TRUE
     /\ UNCHANGED <<calc, today, vehiculos, notificaciones, lock, run, runCount, prev, mails>>

\* app.py "Eliminar definitivamente": DELETE FROM vehiculos WHERE id = vid.
\* With foreign_keys ON the rows of documentos and of documentos_historial
\* of the vehicle go with it (ON DELETE CASCADE); notificaciones has no
\* foreign key.
DeleteVehicle(vid) ==
  /\ \A r \in Runners : ~Busy(r)
  /\ events < MaxEvents
  /\ vid \in vehiculos
  /\ vehiculos' = vehiculos \ {vid}
  /\ documentos' = [i \in DOMAIN documentos |->
        IF documentos[i] # None /\ documentos[i][1].vehiculo_id = vid
          THEN None ELSE documentos[i]]
  /\ documentos_historial' = [k \in DOMAIN documentos_historial |->
        IF documentos_historial[k] # None /\ documentos_historial[k][1].vehiculo_id = vid
          THEN None ELSE documentos_historial[k]]
  /\ events' = events + 1
  /\ dirty' = TRUE
  /\ UNCHANGED <<calc, today, doc_seq, notificaciones, lock, run, runCount, prev, mails>>

\* k days pass: date.today() moves on.
AdvanceDay(k) ==
  /\ \A r \in Runners : ~Busy(r)
  /\ events < MaxEvents
  /\ today + k <= MaxDay
  /\ today' = today + k
  /\ events' = events + 1
  /\ dirty' = TRUE
  /\ UNCHANGED <<calc, store, notificaciones, lock, run, runCount, prev, mails>>

\* ------------------------------------------------------------------------
\* The check run: reminders.py main(dry_run) for "cli", the button
\* "Chequear documentos y generar recordatorios" of app.py for "ui"
\* ------------------------------------------------------------------------
\* The run begins: the vehicles are fetched in the order of the runner.  The
\* reports of the runs that ended are dropped; the last one is kept in prev.
Begin(r, dry) ==
  /\ ~Busy(r)
  /\ events < MaxEvents
  /\ run' = [q \in Runners |->
       IF q = r
         THEN [pc |-> "scan", dry_run |-> dry,
               todo |-> scan_list(IF r = "cli" THEN cli_vehicles ELSE fetch_vehicles),
               cur |-> None, pending |-> <<>>, tx |-> NoTx, cfg |-> None, sent |-> 0,
               committed |-> FALSE, seq |-> runCount + 1, quiet |-> ~dirty]
         ELSE IF Busy(q) THEN run[q] ELSE IdleRun]
  /\ prev' = IF runCount > 0 /\ \E q \in Runners : run[q].seq = runCount
              THEN Report(run[CHOOSE q \in Runners : run[q].seq = runCount])
              ELSE Report(IdleRun)
  /\ runCount' = runCount + 1
  /\ events' = events + 1
  /\ dirty' = FALSE
  /\ UNCHANGED <<calc, today, store, notificaciones, lock, mails>>

\* One run at a time (section 5 of the spec: run-to-completion).
Start(r, dry) ==
  /\ \A q \in Runners : ~Busy(q)
  /\ Begin(r, dry)

\* A run that begins while the other runner is in the middle of its run.
StartOverlap(r, dry) ==
  /\ \E q \in Runners \ {r} : Busy(q)
  /\ Begin(r, dry)

\* History of the mails the Mail Sender accepted.
Delivered(p) ==
  /\ sent5' = IF p.want_5_notify
                THEN [sent5 EXCEPT ![p.doc_id] = @ \cup {p.expiry_s}] ELSE sent5
  /\ escSent' = IF p.want_state_notify
                  THEN [escSent EXCEPT ![p.doc_id] = TRUE] ELSE escSent

\* An exception leaves the run: the open transaction is rolled back and the
\* write lock released when the connection goes away.  The locals of the scan
\* are gone; what stays of a run that did not reach the send is an empty report.
Abort(r, pc) ==
  /\ run' = [run EXCEPT ![r].pc = pc, ![r].tx = NoTx, ![r].cur = None,
                        ![r].todo = <<>>, ![r].cfg = None,
                        ![r].pending = IF run[r].committed THEN @ ELSE <<>>]
  /\ lock' = IF lock = r THEN "none" ELSE lock

\* A check that compares with the state last notified when there is one.
check_document_by_notified(r, doc, n, today_) ==
  LET expiry == IF r = "cli" THEN parse_iso_date(doc.fecha_vencimiento)
                             ELSE app_parse_iso_date(doc.fecha_vencimiento)
      d == IF r = "cli" THEN days_left(expiry, today_) ELSE app_days_left(expiry, today_)
      state == IF r = "cli" THEN state_from_days(d) ELSE app_state_from_days(d)[1]
      label == IF r = "cli" THEN human_days_label(d) ELSE app_human_days_label(d)
      last_state == IF n = None THEN NULL
                    ELSE IF n[1].last_notified_state # NULL THEN n[1].last_notified_state
                    ELSE n[1].last_state
      last_notified_5_expiry == IF n # None THEN n[1].last_notified_5_expiry ELSE NoDate
      wsn == want_state_notify(last_state, state)
      w5n == want_5_notify(d, last_notified_5_expiry, doc.fecha_vencimiento)
  IN [cur |-> [doc |-> doc, n |-> n, d |-> d, state |-> state,
               want_state_notify |-> wsn, want_5_notify |-> w5n],
      pending |-> IF wsn \/ w5n
                    THEN <<pending_entry(doc.vehiculo_id, doc, state, d, label,
                                         last_state, wsn, w5n)>>
                    ELSE <<>>]

\* The check of the document doc by runner r, with n the row of
\* notificaciones read for it, up to the append to pending: the locals of
\* the check and what it appends.
check_document(r, doc, n, today_) ==
  LET expiry == IF r = "cli" THEN parse_iso_date(doc.fecha_vencimiento)
                             ELSE app_parse_iso_date(doc.fecha_vencimiento)
      d == IF r = "cli" THEN days_left(expiry, today_) ELSE app_days_left(expiry, today_)
      state == IF r = "cli" THEN state_from_days(d) ELSE app_state_from_days(d)[1]
      label == IF r = "cli" THEN human_days_label(d) ELSE app_human_days_label(d)
      last_state == IF n # None THEN n[1].last_state ELSE NULL
      last_notified_5_expiry == IF n # None THEN n[1].last_notified_5_expiry ELSE NoDate
      wsn == want_state_notify(last_state, state)
      w5n == want_5_notify(d, last_notified_5_expiry, doc.fecha_vencimiento)
  IN [cur |-> [doc |-> doc, n |-> n, d |-> d, state |-> state,
               want_state_notify |-> wsn, want_5_notify |-> w5n],
      pending |-> IF wsn \/ w5n
                    THEN <<pending_entry(doc.vehiculo_id, doc, state, d, label,
                                         last_state, wsn, w5n)>>
                    ELSE <<>>]

\* The first half of the check of the next document: compute the state, read
\* the tracking row, decide, append to pending.
ScanRead(r) ==
  /\ run[r].pc = "scan"
  /\ run[r].todo # <<>>
  /\ LET doc == Head(run[r].todo)
         chk == check_document(r, doc, View(r)[doc.id], today)
     IN run' = [run EXCEPT
           ![r].pc = "write",
           ![r].todo = Tail(run[r].todo),
           ![r].cur = Some(chk.cur),
           ![r].pending = run[r].pending \o chk.pending]
  /\ UNCHANGED <<calc, today, store, notificaciones, lock, counts, mails>>

\* The second half: the UPDATE or INSERT of the tracking row, in the
\* transaction of the connection.  The first write takes the write lock; while
\* another connection holds it the statement waits.  The statement is chosen
\* by the row n that was read and acts on the row as it is now: the UPDATE
\* sets three columns of it, and the INSERT of a row that another run has
\* committed since the read raises sqlite3.IntegrityError (documento_id is
\* the primary key), which leaves the run.
ScanWrite(r) ==
  /\ run[r].pc = "write"
  /\ lock \in {"none", r}
  /\ LET c == run[r].cur[1]
         row == View(r)[c.doc.id]
     IN IF c.n = None /\ row # None
          THEN Abort(r, "crashed")
          ELSE /\ run' = [run EXCEPT
                     ![r].pc = "scan",
                     ![r].tx = [run[r].tx EXCEPT ![c.doc.id] =
                                  snapshot_upsert(row, c.state, c.doc.fecha_vencimiento, today)]]
               /\ lock' = r
  /\ UNCHANGED <<calc, today, store, notificaciones, counts, mails>>

\* conn.commit() after the loop, then the two early returns (nothing pending,
\* preview) or the hand-over to the send.
ScanCommit(r) ==
  /\ run[r].pc = "scan"
  /\ run[r].todo = <<>>
  /\ notificaciones' = View(r)
  /\ lock' = IF lock = r THEN "none" ELSE lock
  /\ run' = [run EXCEPT
        ![r].tx = NoTx,
        ![r].committed = TRUE,
        ![r].pc = after_scan(run[r].pending, run[r].dry_run)]
  /\ escSent' = [i \in DocIds |->
        IF /\ View(r)[i] # None
           /\ (notificaciones[i] = None
               \/ notificaciones[i][1].last_state # View(r)[i][1].last_state)
          THEN FALSE ELSE escSent[i]]
  /\ UNCHANGED <<calc, today, store, counts, sent5>>

\* reminders.py send_messages, its first line: load_config() with the
\* settings cfg in the environment.  With a setting missing SystemExit leaves
\* send_messages and main; otherwise the connection to the server is opened.
CliLoadConfig(cfg) ==
  LET r == "cli"
  IN /\ run[r].pc = "send"
     /\ run[r].cfg = None
     /\ IF load_config(cfg)
          THEN /\ run' = [run EXCEPT ![r].cfg = Some(cfg)]
               /\ UNCHANGED lock
          ELSE /\ run' = [run EXCEPT ![r].pc = "config_error", ![r].cfg = Some(cfg),
                                     ![r].tx = NoTx, ![r].cur = None, ![r].todo = <<>>]
               /\ lock' = IF lock = r THEN "none" ELSE lock
     /\ UNCHANGED <<calc, today, store, notificaciones, counts, mails>>

\* reminders.py send_messages: server.send_message of the next message.
\* ok = FALSE: the transport raises, and the exception leaves send_messages
\* and main.
CliSend(ok) ==
  LET r == "cli"
  IN /\ run[r].pc = "send"
     /\ run[r].cfg # None
     /\ run[r].sent < Len(run[r].pending)
     /\ IF ok
          THEN /\ run' = [run EXCEPT ![r].sent = @ + 1]
               /\ Delivered(run[r].pending[run[r].sent + 1])
               /\ UNCHANGED lock
          ELSE /\ Abort(r, "failed")
               /\ UNCHANGED mails
     /\ UNCHANGED <<calc, today, store, notificaciones, counts>>

\* reminders.py main after send_messages returned: "Mark notified" for all
\* of pending, conn.commit().
CliMark ==
  LET r == "cli"
  IN /\ run[r].pc = "send"
     /\ run[r].cfg # None
     /\ run[r].sent = Len(run[r].pending)
     /\ lock \in {"none", r}
     /\ notificaciones' = mark_all(notificaciones, run[r].pending)
     /\ run' = [run EXCEPT ![r].pc = "done"]
     /\ UNCHANGED <<calc, today, store, lock, counts, mails>>

\* app.py before the send loop: the settings cfg are read from the
\* environment as they are and smtplib.SMTP is entered.
UiConnect(cfg) ==
  LET r == "ui"
  IN /\ run[r].pc = "send"
     /\ run[r].cfg = None
     /\ run' = [run EXCEPT ![r].cfg = Some(cfg)]
     /\ UNCHANGED <<calc, today, store, notificaciones, lock, counts, mails>>

\* app.py send loop: server.send_message of the next message.  With settings
\* the transport cannot work with, the first use of the server raises.
UiSend(ok) ==
  LET r == "ui"
  IN /\ run[r].pc = "send"
     /\ run[r].cfg # None
     /\ ok => can_deliver(run[r].cfg[1])
     /\ run[r].sent < Len(run[r].pending)
     /\ IF ok
          THEN /\ run' = [run EXCEPT ![r].sent = @ + 1, ![r].pc = "mark"]
               /\ Delivered(run[r].pending[run[r].sent + 1])
               /\ UNCHANGED lock
          ELSE /\ Abort(r, "failed")
               /\ UNCHANGED mails
     /\ UNCHANGED <<calc, today, store, notificaciones, counts>>

\* app.py send loop: "Mark notified" of the message just sent, in the
\* transaction of the connection.
UiMark ==
  LET r == "ui"
      p == run[r].pending[run[r].sent]
  IN /\ run[r].pc = "mark"
     /\ lock \in {"none", r}
     /\ run' = [run EXCEPT
           ![r].pc = "send",
           ![r].tx = [run[r].tx EXCEPT ![p.doc_id] = mark_notified(View(r)[p.doc_id], p)]]
     /\ lock' = r
     /\ UNCHANGED <<calc, today, store, notificaciones, counts, mails>>

\* app.py after the send loop: conn.commit().
UiCommit ==
  LET r == "ui"
  IN /\ run[r].pc = "send"
     /\ run[r].cfg # None
     /\ run[r].sent = Len(run[r].pending)
     /\ notificaciones' = View(r)
     /\ lock' = IF lock = r THEN "none" ELSE lock
     /\ run' = [run EXCEPT ![r].pc = "done", ![r].tx = NoTx]
     /\ UNCHANGED <<calc, today, store, counts, mails>>

\* The process of the run stops (kill, power loss, "database is locked").
Crash(r) ==
  /\ Busy(r)
  /\ Abort(r, "crashed")
  /\ UNCHANGED <<calc, today, store, notificaciones, counts, mails>>

\* ------------------------------------------------------------------------
\* The pages of the UI that show the state of the fleet
\* ------------------------------------------------------------------------
\* app.py get_doc_status of the row doc (None: the vehicle has no such row).
get_doc_status(doc) ==
  IF doc = None \/ doc[1].fecha_vencimiento.fmt = "null"
    THEN [expiry |-> None, days |-> None, state |-> "Rojo", badge |-> "badge-red",
          label |-> [text |-> "No registrado", n |-> 0]]
    ELSE LET expiry == app_parse_iso_date(doc[1].fecha_vencimiento)
             d == app_days_left(expiry, today)
             sb == app_state_from_days(d)
         IN [expiry |-> expiry, days |-> d, state |-> sb[1], badge |-> sb[2],
             label |-> app_human_days_label(d)]

\* A comparison that keeps the largest day count.
urgency_step_keeps_largest(best, tipo, status) ==
  LET d_cmp == IF status.days = None THEN MISSING_SCORE ELSE status.days[1]
  IN IF best[2] = "" \/ d_cmp > best[1] THEN <<d_cmp, tipo, status.expiry>> ELSE best

\* A comparison that lets a later type win a tie.
urgency_step_last_wins(best, tipo, status) ==
  LET d_cmp == IF status.days = None THEN MISSING_SCORE ELSE status.days[1]
  IN IF d_cmp <= best[1] THEN <<d_cmp, tipo, status.expiry>> ELSE best

\* One turn of the loop of get_vehicle_urgency: best is
\* <<best_days, best_tipo, best_exp>>.
urgency_step(best, tipo, status) ==
  LET d_cmp == IF status.days = None THEN MISSING_SCORE ELSE status.days[1]
  IN IF d_cmp < best[1] THEN <<d_cmp, tipo, status.expiry>> ELSE best

RECURSIVE urgency_loop(_, _, _)
urgency_loop(vid, i, best) ==
  IF i > Len(DOC_TYPES) THEN best
  ELSE urgency_loop(vid, i + 1,
         urgency_step(best, DOC_TYPES[i], get_doc_status(fetch_vehicle_doc(vid, DOC_TYPES[i]))))

\* app.py get_vehicle_urgency: (urgency_score, doc_type, expiry_date).
get_vehicle_urgency(vid) ==
  urgency_loop(vid, 1, <<BEST_DAYS_INIT, "", None>>)

\* The state the Dashboard gives a vehicle of urgency score u.
dashboard_state(u) ==
  app_state_from_days(IF u = MISSING_SCORE THEN None ELSE Some(u))

\* The item of a vehicle: (urgency, state, badge, tipo, exp, v).
dashboard_item(vid) ==
  LET u == get_vehicle_urgency(vid)
  IN [urgency |-> u[1], state |-> dashboard_state(u[1])[1],
      badge |-> dashboard_state(u[1])[2], tipo |-> u[2], exp |-> u[3], v |-> vid]

\* list.sort(key=lambda x: x[0]): ascending and stable.
RECURSIVE sort_insert(_, _)
sort_insert(sorted, x) ==
  IF sorted = <<>> THEN <<x>>
  ELSE IF x.urgency < Head(sorted).urgency THEN <<x>> \o sorted
  ELSE <<Head(sorted)>> \o sort_insert(Tail(sorted), x)

RECURSIVE sort_items(_)
sort_items(items) ==
  IF items = <<>> THEN <<>>
  ELSE sort_insert(sort_items(SubSeq(items, 1, Len(items) - 1)), items[Len(items)])

\* The items of the Dashboard with the filters on "Todos", sorted.
dashboard_items ==
  LET vs == fetch_vehicles
  IN sort_items([i \in 1..Len(vs) |-> dashboard_item(vs[i])])

\* The three counters of the Dashboard.
dashboard_kpis ==
  [st \in {"Rojo", "Amarillo", "Verde"} |->
     Cardinality({v \in vehiculos : dashboard_state(get_vehicle_urgency(v)[1])[1] = st})]

\* The page classifies the day count d with both classifiers.
Classify(d) ==
  /\ calc' = [op |-> "classify", d |-> d,
               state |-> state_from_days(d), app_state |-> app_state_from_days(d)[1]]
  /\ UNCHANGED <<today, store, notificaciones, lock, run, counts, mails>>

\* The page of a vehicle shows the status of its document of type
\* DOC_TYPES[ti].
ShowDocStatus(vid, ti) ==
  /\ vid \in vehiculos
  /\ calc' = [op |-> "status", vid |-> vid, tipo |-> DOC_TYPES[ti],
               doc |-> fetch_vehicle_doc(vid, DOC_TYPES[ti]),
               status |-> get_doc_status(fetch_vehicle_doc(vid, DOC_TYPES[ti]))]
  /\ UNCHANGED <<today, store, notificaciones, lock, run, counts, mails>>

\* The Dashboard computes the urgency of a vehicle.
ShowUrgency(vid) ==
  /\ vid \in vehiculos
  /\ calc' = [op |-> "urgency", vid |-> vid, urgency |-> get_vehicle_urgency(vid)]
  /\ UNCHANGED <<today, store, notificaciones, lock, run, counts, mails>>

\* The Dashboard is rendered.
ShowDashboard ==
  /\ calc' = [op |-> "dashboard", kpis |-> dashboard_kpis, items |-> dashboard_items]
  /\ UNCHANGED <<today, store, notificaciones, lock, run, counts, mails>>

\* ------------------------------------------------------------------------
\* Specifications
\* ------------------------------------------------------------------------
Step ==
  \/ \E f \in Forms, off \in ExpiryOffsets : SaveDoc(f[1], f[2], off)
  \/ \E k \in DaySteps : AdvanceDay(k)
  \/ \E r \in Runners : ScanRead(r)
  \/ \E r \in Runners : ScanWrite(r)
  \/ \E r \in Runners : ScanCommit(r)
  \/ \E cfg \in Configs : CliLoadConfig(cfg)
  \/ \E ok \in BOOLEAN : CliSend(ok)
  \/ CliMark
  \/ \E cfg \in Configs : UiConnect(cfg)
  \/ \E ok \in BOOLEAN : UiSend(ok)
  \/ UiMark
  \/ UiCommit
  \/ \E r \in Runners : Crash(r)

\* Check runs one after the other.
Next ==
  \/ \E r \in Runners, dry \in BOOLEAN : Start(r, dry)
  \/ Step

Spec == Init /\ [][Next]_vars

\* Check runs that may overlap.
NextOverlap ==
  \/ \E r \in Runners, dry \in BOOLEAN : Start(r, dry)
  \/ \E r \in Runners, dry \in BOOLEAN : StartOverlap(r, dry)
  \/ Step

SpecOverlap == Init /\ [][NextOverlap]_vars

\* The forms and the deletion of vehicles, with preview runs of the
\* scheduled check in between.
StoreForms == {<<1, 1>>, <<1, 2>>, <<2, 1>>}

NextStore ==
  \/ \E f \in StoreForms, off \in ExpiryOffsets : SaveDoc(f[1], f[2], off)
  \/ \E v \in {w.id : w \in FleetRows} : DeleteVehicle(v)
  \/ Start("cli", TRUE)
  \/ \E r \in Runners : ScanRead(r)
  \/ \E r \in Runners : ScanWrite(r)
  \/ \E r \in Runners : ScanCommit(r)

SpecStore == Init /\ [][NextStore]_vars

\* The classifiers alone, over the day counts ClassifyInputs.
ClassifyInputs ==
  {None} \cup {Some(d) : d \in (-MaxAbsDays)..MaxAbsDays}
         \cup {Some(-10000), Some(MISSING_SCORE), Some(400), Some(100000)}

NextClassify == \E d \in ClassifyInputs : Classify(d)

SpecClassify == Init /\ [][NextClassify]_vars

\* The fleet pages over the tables DashboardTables: vehicle 1 has, for each
\* type, no row or a row with one of the expiry strings of RowChoices (every
\* kind of string for the first two types, dates for the others); vehicle 2
\* has its documents at 400 days, all five or all but the first.
DateChoices ==
  { None,
    Some([fmt |-> "date", day |-> -10000]),
    Some([fmt |-> "date", day |-> 5]) }

RowChoices ==
  DateChoices \cup
  { Some(NoDate),
    Some([fmt |-> "text", day |-> 0]),
    Some([fmt |-> "datetime", day |-> 400]) }

DashboardTables ==
  { [i \in 1..(2 * Len(DOC_TYPES)) |->
       IF i <= Len(DOC_TYPES)
         THEN IF c[i] = None THEN None
              ELSE Some([id |-> i, vehiculo_id |-> 1, tipo |-> DOC_TYPES[i],
                         fecha_vencimiento |-> c[i][1]])
         ELSE IF i = Len(DOC_TYPES) + 1 /\ ~first THEN None
              ELSE Some([id |-> i, vehiculo_id |-> 2, tipo |-> DOC_TYPES[i - Len(DOC_TYPES)],
                         fecha_vencimiento |-> isoformat(400)])]
    : c \in {x \in [1..Len(DOC_TYPES) -> RowChoices] :
                \A i \in 3..Len(DOC_TYPES) : x[i] \in DateChoices},
      first \in BOOLEAN }

InitDashboard ==
  /\ today = 0
  /\ vehiculos = {v.id : v \in FleetRows}
  /\ documentos \in DashboardTables
  /\ doc_seq = 2 * Len(DOC_TYPES)
  /\ documentos_historial = <<>>
  /\ notificaciones = [i \in DocIds |-> None]
  /\ lock = "none"
  /\ run = [r \in Runners |-> IdleRun]
  /\ runCount = 0
  /\ events = 0
  /\ prev = Report(IdleRun)
  /\ dirty = FALSE
  /\ sent5 = [i \in DocIds |-> {}]
  /\ escSent = [i \in DocIds |-> FALSE]
  /\ calc = NoCalc

NextDashboard ==
  \/ \E v \in {w.id : w \in FleetRows}, ti \in 1..Len(DOC_TYPES) : ShowDocStatus(v, ti)
  \/ \E v \in {w.id : w \in FleetRows} : ShowUrgency(v)
  \/ ShowDashboard

SpecDashboard == InitDashboard /\ [][NextDashboard]_vars

\* The fleet pages over the tables StateTables: vehicle 1 has, for each
\* type, no row or a row at 10, 20 or 400 days, and for the first type also a
\* row without expiry, with a string that is no date, or expired 9999 or
\* 10000 days ago; vehicle 2 has its five documents at 20 days.
StateDays == {10, 20, 400}

StateChoices ==
  {None} \cup {Some(isoformat(d)) : d \in StateDays}

FirstTypeChoices ==
  StateChoices \cup
  { Some(NoDate),
    Some([fmt |-> "text", day |-> 0]),
    Some(isoformat(MISSING_SCORE)),
    Some(isoformat(-10000)) }

StateTables ==
  { [i \in 1..(2 * Len(DOC_TYPES)) |->
       IF i <= Len(DOC_TYPES)
         THEN IF c[i] = None THEN None
              ELSE Some([id |-> i, vehiculo_id |-> 1, tipo |-> DOC_TYPES[i],
                         fecha_vencimiento |-> c[i][1]])
         ELSE Some([id |-> i, vehiculo_id |-> 2, tipo |-> DOC_TYPES[i - Len(DOC_TYPES)],
                    fecha_vencimiento |-> isoformat(20)])]
    : c \in {x \in [1..Len(DOC_TYPES) -> FirstTypeChoices] :
                \A i \in 2..Len(DOC_TYPES) : x[i] \in StateChoices} }

InitFleetState ==
  /\ today = 0
  /\ vehiculos = {v.id : v \in FleetRows}
  /\ documentos \in StateTables
  /\ doc_seq = 2 * Len(DOC_TYPES)
  /\ documentos_historial = <<>>
  /\ notificaciones = [i \in DocIds |-> None]
  /\ lock = "none"
  /\ run = [r \in Runners |-> IdleRun]
  /\ runCount = 0
  /\ events = 0
  /\ prev = Report(IdleRun)
  /\ dirty = FALSE
  /\ sent5 = [i \in DocIds |-> {}]
  /\ escSent = [i \in DocIds |-> FALSE]
  /\ calc = NoCalc

SpecFleetState == InitFleetState /\ [][NextDashboard]_vars

\* The check runs over the tables ScanTables: vehicle 1 has, of its second
\* type (id 1) and of its first type (id 2), no row, a row without expiry, a
\* row with a date or a row with a string that is no date; no other row.
ScanChoices ==
  { None, Some(NoDate), Some(isoformat(5)), Some([fmt |-> "text", day |-> 0]) }

ScanTables ==
  { [i \in DocIds |->
       IF i <= 2 /\ c[i] # None
         THEN Some([id |-> i, vehiculo_id |-> 1, tipo |-> DOC_TYPES[3 - i],
                    fecha_vencimiento |-> c[i][1]])
         ELSE None]
    : c \in [1..2 -> ScanChoices] }

InitScan ==
  /\ today = 0
  /\ vehiculos = {v.id : v \in FleetRows}
  /\ documentos \in ScanTables
  /\ doc_seq = 2
  /\ documentos_historial = <<>>
  /\ notificaciones = [i \in DocIds |-> None]
  /\ lock = "none"
  /\ run = [r \in Runners |-> IdleRun]
  /\ runCount = 0
  /\ events = 0
  /\ prev = Report(IdleRun)
  /\ dirty = FALSE
  /\ sent5 = [i \in DocIds |-> {}]
  /\ escSent = [i \in DocIds |-> FALSE]
  /\ calc = NoCalc

NextScan ==
  \/ \E r \in Runners, dry \in BOOLEAN : Start(r, dry)
  \/ \E r \in Runners : ScanRead(r)
  \/ \E r \in Runners : ScanWrite(r)
  \/ \E r \in Runners : ScanCommit(r)
  \/ \E cfg \in Configs : CliLoadConfig(cfg)
  \/ \E ok \in BOOLEAN : CliSend(ok)
  \/ CliMark
  \/ \E cfg \in Configs : UiConnect(cfg)
  \/ \E ok \in BOOLEAN : UiSend(ok)
  \/ UiMark
  \/ UiCommit

SpecScan == InitScan /\ [][NextScan]_vars

\* One run of either runner from a known store: on day 0 each vehicle got
\* its first document, with an expiry of PairExpiries or none at all, and a
\* preview run scanned them; 15 days later the run starts.
PairExpiries == {20, 40, 60}

PairTables ==
  { [i \in DocIds |->
       IF i <= 2 /\ c[i] # None
         THEN Some([id |-> i, vehiculo_id |-> i, tipo |-> DOC_TYPES[1],
                    fecha_vencimiento |-> isoformat(c[i][1])])
         ELSE None]
    : c \in [1..2 -> {None} \cup {Some(e) : e \in PairExpiries}] }

\* The table notificaciones that the preview run of day 0 left for the
\* documents docs.
PairStart(docs) ==
  [i \in DocIds |->
     IF docs[i] = None THEN None
     ELSE snapshot_upsert(None,
            state_from_days(days_left(parse_iso_date(docs[i][1].fecha_vencimiento), 0)),
            docs[i][1].fecha_vencimiento, 0)]

InitPair ==
  /\ today \in DaySteps
  /\ vehiculos = {v.id : v \in FleetRows}
  /\ documentos \in PairTables
  /\ doc_seq = 2
  /\ documentos_historial = <<>>
  /\ notificaciones = PairStart(documentos)
  /\ lock = "none"
  /\ run = [r \in Runners |-> IdleRun]
  /\ runCount = 0
  /\ events = 0
  /\ prev = Report(IdleRun)
  /\ dirty = FALSE
  /\ sent5 = [i \in DocIds |-> {}]
  /\ escSent = [i \in DocIds |-> FALSE]
  /\ calc = NoCalc

NextPair ==
  \/ NextScan
  \/ \E r \in Runners : Crash(r)

SpecPair == InitPair /\ [][NextPair]_vars

\* ------------------------------------------------------------------------
\* Properties
\* ------------------------------------------------------------------------
Escalations == {<<"Verde", "Amarillo">>, <<"Amarillo", "Rojo">>}

\* The runner r has decided on a document and not yet written its row.
Deciding(r) == run[r].pc = "write"

\* The indexes of the pending entries of r that are of document i.
PendingFor(r, i) ==
  {k \in 1..Len(run[r].pending) : run[r].pending[k].doc_id = i}

\* C1: in a check of a document the escalation fires exactly when the stored
\* row has a last_state and (last_state, current state) is (Verde, Amarillo)
\* or (Amarillo, Rojo); no row, an unchanged state and every other pair do
\* not fire, and a fired escalation is in the pending list.
C1_EscalationRule ==
  \A r \in Runners :
    Deciding(r) =>
      LET c == run[r].cur[1]
          stored == notificaciones[c.doc.id]
          fires == /\ stored # None
                   /\ stored[1].last_state # NULL
                   /\ <<stored[1].last_state, c.state>> \in Escalations
      IN /\ c.want_state_notify = fires
         /\ (\E k \in PendingFor(r, c.doc.id) : run[r].pending[k].want_state_notify)
               = fires

\* C1 witness: a check that reads last_state Verde, computes Amarillo and fires.
C1_Witness ==
  \E r \in Runners :
    /\ Deciding(r)
    /\ notificaciones[run[r].cur[1].doc.id] # None
    /\ notificaciones[run[r].cur[1].doc.id][1].last_state = "Verde"
    /\ run[r].cur[1].state = "Amarillo"
    /\ run[r].cur[1].want_state_notify

\* C2: in a check of a document the five-day warning fires exactly when the
\* days left are 5 and the stored last_notified_5_expiry is not the expiry
\* string of the document; no row and a NULL marker count as not equal.
C2_FiveDayRule ==
  \A r \in Runners :
    Deciding(r) =>
      LET c == run[r].cur[1]
          stored == notificaciones[c.doc.id]
          differs == \/ stored = None
                     \/ stored[1].last_notified_5_expiry = NoDate
                     \/ stored[1].last_notified_5_expiry # c.doc.fecha_vencimiento
          fires == /\ c.doc.fecha_vencimiento.fmt = "date"
                   /\ c.doc.fecha_vencimiento.day - today = 5
                   /\ differs
      IN /\ c.want_5_notify = fires
         /\ (\E k \in PendingFor(r, c.doc.id) : run[r].pending[k].want_5_notify)
               = fires

\* C2 witness: a check at 5 days left of a document that has no row yet fires.
C2_Witness ==
  \E r \in Runners :
    /\ Deciding(r)
    /\ notificaciones[run[r].cur[1].doc.id] = None
    /\ run[r].cur[1].d = Some(5)
    /\ run[r].cur[1].want_5_notify

\* The two notified markers of document i in the committed table.
last_notified_state(i) ==
  IF notificaciones[i] = None THEN NULL ELSE notificaciones[i][1].last_notified_state
last_notified_5_expiry(i) ==
  IF notificaciones[i] = None THEN NoDate ELSE notificaciones[i][1].last_notified_5_expiry
Markers == [i \in DocIds |-> <<last_notified_state(i), last_notified_5_expiry(i)>>]

\* r is the run started last.
Latest(r) == runCount > 0 /\ run[r].seq = runCount

\* r is the run started last, it began with no document and no date changed
\* since the run before it began, and that run had ended.
Recheck(r) == Latest(r) /\ runCount > 1 /\ run[r].quiet

\* Two pending entries are the same notification: the same five-day
\* milestone or the same escalation crossing of the same document.
SameNotification(p, q) ==
  /\ p.doc_id = q.doc_id
  /\ \/ p.want_5_notify /\ q.want_5_notify /\ p.expiry_s = q.expiry_s
     \/ p.want_state_notify /\ q.want_state_notify /\ p.body.cambio = q.body.cambio

\* The mail that a step delivers, as a set of pending entries (empty or one).
DeliveredNow ==
  {p \in UNION {{run[r].pending[k] : k \in 1..Len(run[r].pending)} : r \in Runners} :
     \E r \in Runners :
        /\ run'[r].sent = run[r].sent + 1
        /\ run[r].pc = "send"
        /\ p = run[r].pending[run[r].sent + 1]}

\* C3: over any sequence of check runs, no five-day warning of an expiry
\* value of a document is delivered a second time, and no escalation of a
\* document is delivered a second time for the same crossing.
C3_AtMostOnce ==
  [][\A p \in DeliveredNow :
        /\ p.want_5_notify => p.expiry_s \notin sent5[p.doc_id]
        /\ p.want_state_notify => ~escSent[p.doc_id]]_vars

\* C4 as stated: a second run right after a run that ended normally, with no
\* change of documents or date, has nothing pending and changes no marker.
C4_RecheckIsSilent ==
  [][\A r \in Runners :
        (Recheck(r)' /\ prev'.pc = "done")
          => (run'[r].pending = <<>> /\ Markers' = Markers)]_vars

\* The run of the report left no five-day warning unsent: it was a real run,
\* or none of its pending entries was a five-day warning.
NoUnsentFiveDay(rep) ==
  \/ ~rep.dry_run
  \/ \A k \in 1..Len(rep.pending) : ~rep.pending[k].want_5_notify

\* C4 amended: a second run right after a run that ended normally and left no
\* five-day warning unsent (a real run, or a preview without five-day
\* warning), with no change of documents or date, has nothing pending and
\* changes no marker.
C4_RecheckAfterDeliveryIsSilent ==
  [][\A r \in Runners :
        (Recheck(r)' /\ prev'.pc = "done" /\ NoUnsentFiveDay(prev'))
          => (run'[r].pending = <<>> /\ Markers' = Markers)]_vars

\* C4 witness: the re-check of a document at 5 days left, after the real run
\* that delivered its five-day warning, has completed with nothing pending.
C4_Witness ==
  \E r \in Runners :
    /\ Recheck(r)
    /\ prev.pc = "done" /\ ~prev.dry_run
    /\ \E k \in 1..Len(prev.pending) : prev.pending[k].want_5_notify
    /\ run[r].pc = "done"
    /\ run[r].pending = <<>>

\* The delivery of the report's run failed at this pending entry.
FailedEntry(rep) == rep.pending[rep.sent + 1]

\* C5: when the delivery of a message failed in a real run, the five-day
\* marker of that message is not set by that run, and the next run over
\* unchanged documents has the same notification pending again, escalation or
\* five-day warning.
C5_FailedIsRetried ==
  \A r \in Runners :
    /\ (Latest(r) /\ run[r].pc = "failed") =>
         LET f == FailedEntry(run[r])
         IN f.want_5_notify => last_notified_5_expiry(f.doc_id) # f.expiry_s
    /\ (Recheck(r) /\ prev.pc = "failed" /\ run[r].committed) =>
         LET f == FailedEntry(prev)
         IN \E k \in PendingFor(r, f.doc_id) :
               /\ f.want_5_notify => run[r].pending[k].want_5_notify
               /\ f.want_state_notify => run[r].pending[k].want_state_notify

\* The markers of pending entry p are in the committed table.
MarkersPersisted(p) ==
  /\ p.want_state_notify => last_notified_state(p.doc_id) = p.state
  /\ p.want_5_notify => last_notified_5_expiry(p.doc_id) = p.expiry_s

\* C6: when the delivery of one message of a batch failed and the run has
\* ended, no other message of the batch is left without an attempt, and the
\* markers of every delivered message are in the committed table.
C6_FailureDoesNotAbortBatch ==
  \A r \in Runners :
    (Latest(r) /\ run[r].pc = "failed" /\ ~dirty) =>
      /\ run[r].sent + 1 = Len(run[r].pending)
      /\ \A k \in 1..run[r].sent : MarkersPersisted(run[r].pending[k])

\* Runner r has delivered a message of document i that carries c.
DeliveredBy(r, i, c(_)) ==
  \E k \in 1..run[r].sent : run[r].pending[k].doc_id = i /\ c(run[r].pending[k])

\* C7: every step that changes last_notified_state of a document writes the
\* state of an escalation of that document that fired and was delivered, and
\* every step that changes last_notified_5_expiry writes the expiry of a
\* five-day warning of that document that fired and was delivered.
C7_MarkersOnlyAfterDelivery ==
  [][\A i \in DocIds :
        /\ last_notified_state(i)' # last_notified_state(i) =>
             \E r \in Runners :
                DeliveredBy(r, i, LAMBDA p : /\ p.want_state_notify
                                             /\ p.state = last_notified_state(i)')
        /\ last_notified_5_expiry(i)' # last_notified_5_expiry(i) =>
             \E r \in Runners :
                DeliveredBy(r, i, LAMBDA p : /\ p.want_5_notify
                                             /\ p.expiry_s = last_notified_5_expiry(i)')]_vars

\* C7 witness: both markers of a document are set.
C7_Witness ==
  \E i \in DocIds :
    /\ last_notified_state(i) = "Rojo"
    /\ last_notified_5_expiry(i) # NoDate

\* The state of a stored date string on the day `today`.
StateOf(fecha_vencimiento) ==
  state_from_days(days_left(parse_iso_date(fecha_vencimiento), today))

\* C8: after the commit of a scan, as long as no document and no date
\* changes, the row of every document with an expiry has last_state equal to
\* the state of its expiry and last_expiry equal to its expiry string, in a
\* preview, after a failed send and after a crash too; and a check that reads
\* last_state Rojo and computes Verde puts nothing in the pending list.
C8_SnapshotAfterScan ==
  \A r \in Runners :
    /\ (Latest(r) /\ run[r].committed /\ ~dirty) =>
         \A i \in DocIds :
           (documentos[i] # None /\ documentos[i][1].fecha_vencimiento.fmt # "null") =>
             /\ notificaciones[i] # None
             /\ notificaciones[i][1].last_state = StateOf(documentos[i][1].fecha_vencimiento)
             /\ notificaciones[i][1].last_expiry = documentos[i][1].fecha_vencimiento
    /\ (/\ run[r].cur # None
        /\ run[r].cur[1].n # None
        /\ run[r].cur[1].n[1].last_state = "Rojo"
        /\ run[r].cur[1].state = "Verde") =>
         PendingFor(r, run[r].cur[1].doc.id) = {}

\* C8 witness: a scan has ended whose last check read last_state Rojo and
\* computed Verde; nothing is pending and the row says Verde.
C8_Witness ==
  \E r \in Runners :
    /\ Latest(r) /\ run[r].committed /\ ~dirty
    /\ run[r].pc = "done"
    /\ run[r].cur # None
    /\ run[r].cur[1].n # None
    /\ run[r].cur[1].n[1].last_state = "Rojo"
    /\ run[r].cur[1].state = "Verde"
    /\ run[r].pending = <<>>
    /\ notificaciones[run[r].cur[1].doc.id][1].last_state = "Verde"

\* C9: two runs that overlap never have both read the same row of a
\* document and both decided the same escalation or the same five-day warning.
C9_NoDoubleDecision ==
  \A r, q \in Runners :
    (r # q /\ run[r].cur # None /\ run[q].cur # None) =>
      LET a == run[r].cur[1]
          b == run[q].cur[1]
      IN ~ /\ a.doc.id = b.doc.id
           /\ a.n = b.n
           /\ \/ a.want_state_notify /\ b.want_state_notify
              \/ a.want_5_notify /\ b.want_5_notify

\* C10: the run after a run that crashed delivers no notification that the
\* crashed run had delivered.
C10_NoRedeliveryAfterCrash ==
  \A r \in Runners :
    (Latest(r) /\ prev.pc = "crashed") =>
      \A k \in 1..run[r].sent, l \in 1..prev.sent :
         ~SameNotification(run[r].pending[k], prev.pending[l])

SnapshotComplete ==
  \A i \in DocIds :
    (documentos[i] # None /\ documentos[i][1].fecha_vencimiento.fmt # "null") =>
      /\ notificaciones[i] # None
      /\ notificaciones[i][1].last_state = StateOf(documentos[i][1].fecha_vencimiento)
      /\ notificaciones[i][1].last_expiry = documentos[i][1].fecha_vencimiento

\* One of the four required mail settings is not set.
SettingMissing(cfg) ==
  \E k \in {"smtp_host", "smtp_port", "email_from", "email_to"} : ~cfg[k]

\* C12: when the scheduled run reads mail settings of which one is missing,
\* the run ends there with a status other than 0, with no message sent, no
\* mail delivered and no marker changed, and with the snapshots of its scan
\* committed in full.
C12_ConfigErrorBeforeSend ==
  [][(run'["cli"].cfg # None /\ SettingMissing(run'["cli"].cfg[1])) =>
        /\ run'["cli"].pc = "config_error"
        /\ exit_status(run'["cli"].pc) # 0
        /\ run'["cli"].sent = 0
        /\ Markers' = Markers
        /\ mails' = mails
        /\ run'["cli"].committed
        /\ ~dirty' => SnapshotComplete']_vars

\* C12 witness: a real run with a message pending ended on missing settings.
C12_Witness ==
  /\ run["cli"].pc = "config_error"
  /\ ~run["cli"].dry_run
  /\ run["cli"].pending # <<>>
  /\ ~run["cli"].cfg[1].email_to

\* C13: for every day count classified, both classifiers return Rojo for no
\* day count and for d <= 15, Amarillo for 16 <= d <= 30 and Verde for d > 30.
C13_ClassifyThresholds ==
  calc.op = "classify" =>
    /\ calc.state = calc.app_state
    /\ calc.state \in {"Rojo", "Amarillo", "Verde"}
    /\ calc.state = "Rojo" <=> (calc.d = None \/ calc.d[1] <= 15)
    /\ calc.state = "Amarillo" <=> (calc.d # None /\ 16 <= calc.d[1] /\ calc.d[1] <= 30)
    /\ calc.state = "Verde" <=> (calc.d # None /\ calc.d[1] > 30)

\* C13 witness: the day count 15 was classified Rojo by both classifiers.
C13_Witness ==
  /\ calc.op = "classify"
  /\ calc.d = Some(15)
  /\ calc.state = "Rojo" /\ calc.app_state = "Rojo"

\* Urgency order of the states: Rojo > Amarillo > Verde.
UrgencyRank(state) ==
  CASE state = "Rojo" -> 3 [] state = "Amarillo" -> 2 [] state = "Verde" -> 1

\* C14: of two day counts classified one after the other, the smaller one
\* is classified at least as urgent as the larger one, by both classifiers.
C14_ClassifyMonotone ==
  [][(/\ calc.op = "classify" /\ calc'.op = "classify"
      /\ calc.d # None /\ calc'.d # None
      /\ calc.d[1] < calc'.d[1]) =>
        /\ UrgencyRank(calc.state) >= UrgencyRank(calc'.state)
        /\ UrgencyRank(calc.app_state) >= UrgencyRank(calc'.app_state)]_vars

\* C14 witness: a day count above 30 was classified Verde.
C14_Witness ==
  /\ calc.op = "classify"
  /\ calc.d = Some(31)
  /\ calc.state = "Verde" /\ calc.app_state = "Verde"

\* The rows of the document of type DOC_TYPES[i] of vehicle v.
RowsOf(v, i) ==
  {k \in DOMAIN documentos : /\ documentos[k] # None
                              /\ documentos[k][1].vehiculo_id = v
                              /\ documentos[k][1].tipo = DOC_TYPES[i]}

\* The document of type DOC_TYPES[i] of vehicle v is registered with a date.
Registered(v, i) ==
  \E k \in RowsOf(v, i) : documentos[k][1].fecha_vencimiento.fmt \in {"date", "datetime"}

\* The rank score of type DOC_TYPES[i] of vehicle v: the days left of a
\* registered document, the sentinel otherwise.
TypeScore(v, i) ==
  IF Registered(v, i)
    THEN documentos[CHOOSE k \in RowsOf(v, i) : TRUE][1].fecha_vencimiento.day - today
    ELSE MISSING_SCORE

\* C15: the urgency of a vehicle, whatever subset of the five documents it
\* has, is one tuple whose score is the minimum of the scores of the five
\* types and whose type is the first type in the order of DOC_TYPES with that
\* score.
C15_UrgencyIsFirstMinimum ==
  calc.op = "urgency" =>
    LET v == calc.vid
        idx == 1..Len(DOC_TYPES)
        least == CHOOSE i \in idx :
                   /\ \A j \in idx : TypeScore(v, i) <= TypeScore(v, j)
                   /\ \A j \in idx : j < i => TypeScore(v, j) > TypeScore(v, i)
    IN /\ Len(calc.urgency) = 3
       /\ calc.urgency[1] = TypeScore(v, least)
       /\ calc.urgency[2] = DOC_TYPES[least]

\* C15 witness: the urgency of a vehicle with no document at all is the
\* sentinel with the first type.
C15_Witness ==
  /\ calc.op = "urgency"
  /\ \A i \in 1..Len(DOC_TYPES) : RowsOf(calc.vid, i) = {}
  /\ calc.urgency = <<MISSING_SCORE, DOC_TYPES[1], None>>

\* Vehicle v has a missing document: a type with no row or with no expiry.
HasMissing(v) ==
  \E i \in 1..Len(DOC_TYPES) :
     \/ RowsOf(v, i) = {}
     \/ \E k \in RowsOf(v, i) : documentos[k][1].fecha_vencimiento.fmt = "null"

\* C16: on the Dashboard the score of a missing document is below the day
\* count of every registered document, and a vehicle with a missing document
\* is never ranked after a vehicle whose five documents are all registered.
C16_MissingAlwaysWins ==
  calc.op = "dashboard" =>
    /\ \A v \in vehiculos, i \in 1..Len(DOC_TYPES) :
          Registered(v, i) => MISSING_SCORE < TypeScore(v, i)
    /\ \A a, b \in 1..Len(calc.items) :
          (/\ HasMissing(calc.items[a].v)
           /\ \A i \in 1..Len(DOC_TYPES) : Registered(calc.items[b].v, i)) =>
             /\ calc.items[a].urgency <= calc.items[b].urgency
             /\ calc.items[a].urgency < calc.items[b].urgency => a < b

\* C17: the status of a document that is absent, has no expiry or has an
\* expiry string that is no date is (no expiry, no days, Rojo, "No
\* registrado"); the status of any other document is its date, its days left,
\* the state of its days left and the label of its days left.
C17_ResolveStatus ==
  calc.op = "status" =>
    IF \/ calc.doc = None
       \/ calc.doc[1].fecha_vencimiento.fmt \in {"null", "text"}
      THEN /\ calc.status.expiry = None
           /\ calc.status.days = None
           /\ calc.status.state = "Rojo"
           /\ calc.status.label.text = "No registrado"
      ELSE LET day == calc.doc[1].fecha_vencimiento.day
           IN /\ calc.status.expiry = Some(day)
              /\ calc.status.days = Some(day - today)
              /\ calc.status.state = app_state_from_days(Some(day - today))[1]
              /\ calc.status.label = app_human_days_label(Some(day - today))

\* C17 witness: the status of a document whose expiry string is no date.
C17_Witness ==
  /\ calc.op = "status"
  /\ calc.doc # None
  /\ calc.doc[1].fecha_vencimiento.fmt = "text"
  /\ calc.status.state = "Rojo"
  /\ calc.status.days = None

\* C18: a step that deletes a vehicle leaves no document of that vehicle
\* and no row of notificaciones of any of its documents.
C18_DeleteCascades ==
  [][\A v \in vehiculos :
        v \notin vehiculos' =>
          \A i \in DocIds :
            (documentos[i] # None /\ documentos[i][1].vehiculo_id = v) =>
              /\ documentos'[i] = None
              /\ notificaciones'[i] = None]_vars

\* C19: after every step no two rows of documentos have the same vehicle
\* and type, and a step that inserts a row inserts it for a vehicle and type
\* that had no row.
C19_OneRowPerVehicleAndType ==
  [][/\ \A i, j \in DOMAIN documentos' :
          (/\ documentos'[i] # None /\ documentos'[j] # None
           /\ documentos'[i][1].vehiculo_id = documentos'[j][1].vehiculo_id
           /\ documentos'[i][1].tipo = documentos'[j][1].tipo) => i = j
     /\ \A i \in DOMAIN documentos :
          (documentos[i] = None /\ documentos'[i] # None) =>
            \A j \in DOMAIN documentos :
              documentos[j] # None =>
                \/ documentos[j][1].vehiculo_id # documentos'[i][1].vehiculo_id
                \/ documentos[j][1].tipo # documentos'[i][1].tipo]_vars

\* C19 witness: a document was created, updated and updated again, and is
\* still the only row of the store.
C19_Witness ==
  /\ Len(documentos_historial) = 2
  /\ \A k \in 1..2 : documentos_historial[k] # None
                        /\ documentos_historial[k][1].documento_id = 1
  /\ documentos[1] # None
  /\ doc_seq = 1

\* The step is a save of the document form: an event that is no day change,
\* no start of a run and no deletion.
SaveStep ==
  /\ events' = events + 1
  /\ today' = today
  /\ runCount' = runCount
  /\ vehiculos' = vehiculos

\* C20: every save of a document that exists appends one entry to
\* documentos_historial, with the values of the document before the save; a
\* save that creates a document appends none; no other step appends; and an
\* entry never changes, and goes only when its vehicle is deleted.
C20_HistoryAppendOnly ==
  [][LET old == documentos_historial
         new == documentos_historial'
     IN /\ Len(new) >= Len(old)
        /\ \A k \in 1..Len(old) :
              \/ new[k] = old[k]
              \/ /\ new[k] = None
                 /\ old[k][1].vehiculo_id \in vehiculos \ vehiculos'
        /\ IF SaveStep /\ doc_seq' = doc_seq
             THEN /\ Len(new) = Len(old) + 1
                  /\ \E i \in DocIds :
                        /\ documentos[i] # None /\ documentos'[i] # None
                        /\ new[Len(new)] # None
                        /\ new[Len(new)][1].documento_id = i
                        /\ new[Len(new)][1].vehiculo_id = documentos[i][1].vehiculo_id
                        /\ new[Len(new)][1].tipo = documentos[i][1].tipo
                        /\ new[Len(new)][1].fecha_vencimiento = documentos[i][1].fecha_vencimiento
                        /\ \A j \in DocIds \ {i} : documentos'[j] = documentos[j]
             ELSE Len(new) = Len(old)]_vars

\* C20 witness: the history holds the expiry a document had before it was
\* renewed.
C20_Witness ==
  \E k \in 1..Len(documentos_historial) :
    /\ documentos_historial[k] # None
    /\ documentos[documentos_historial[k][1].documento_id] # None
    /\ documentos[documentos_historial[k][1].documento_id][1].fecha_vencimiento
          # documentos_historial[k][1].fecha_vencimiento

\* The step is the commit of the scan of runner r.
ScanCommitted(r) == ~run[r].committed /\ run'[r].committed

\* C21: no step removes a row of notificaciones; the write of a check leaves
\* one row for the document in the transaction, with both notified markers
\* absent when the check found no row and with the markers of the row it
\* found otherwise; and the commit of a scan creates rows with both markers
\* absent only, changes no marker of a row that existed, and leaves a row
\* for every document with an expiry.
C21_OneSnapshotKept ==
  [][/\ \A i \in DocIds : notificaciones[i] # None => notificaciones'[i] # None
     /\ \A r \in Runners :
          (run[r].pc = "write" /\ run'[r].pc = "scan") =>
            LET c == run[r].cur[1]
                w == run'[r].tx[c.doc.id]
            IN /\ w # None
               /\ w[1].last_state = c.state
               /\ w[1].last_expiry = c.doc.fecha_vencimiento
               /\ IF notificaciones[c.doc.id] = None
                    THEN /\ w[1].last_notified_state = NULL
                         /\ w[1].last_notified_5_expiry = NoDate
                    ELSE /\ w[1].last_notified_state = last_notified_state(c.doc.id)
                         /\ w[1].last_notified_5_expiry = last_notified_5_expiry(c.doc.id)
     /\ \A r \in Runners :
          ScanCommitted(r) =>
            /\ Markers' = Markers
            /\ ~dirty' => SnapshotComplete']_vars

\* C21 witness: the scan of a later run is committed; the row of a document
\* that was renewed has the new expiry and still has the five-day marker it
\* had before.
C21_Witness ==
  \E r \in Runners :
    /\ Latest(r) /\ run[r].committed
    /\ run[r].cur # None
    /\ run[r].cur[1].n # None
    /\ run[r].cur[1].n[1].last_notified_5_expiry # NoDate
    /\ LET i == run[r].cur[1].doc.id
       IN /\ notificaciones[i][1].last_notified_5_expiry
               = run[r].cur[1].n[1].last_notified_5_expiry
          /\ notificaciones[i][1].last_expiry # run[r].cur[1].n[1].last_expiry

\* C22: the scheduled run that ended after its scan was committed ends with
\* status 0, with nothing pending, in a preview, after the delivery of all
\* messages and after the delivery of a message failed; it ends with another
\* status only when a mail setting is missing.
C22_ExitZeroOnCompletedScan ==
  (run["cli"].committed /\ run["cli"].pc \in {"done", "failed", "config_error"}) =>
     (exit_status(run["cli"].pc) = 0 <=> run["cli"].pc # "config_error")

\* The number of rules that fired in the check c.
FiredRules(c) ==
  (IF c.want_state_notify THEN 1 ELSE 0) + (IF c.want_5_notify THEN 1 ELSE 0)

\* C23: a check of a document puts as many entries in the pending list as
\* rules fired: two when the escalation and the five-day warning both fire,
\* one of them for the escalation and another one for the five-day warning,
\* one when exactly one rule fires, none when none fires.
C23_OneIntentPerRule ==
  \A r \in Runners :
    Deciding(r) =>
      LET c == run[r].cur[1]
          P == PendingFor(r, c.doc.id)
      IN /\ Cardinality(P) = FiredRules(c)
         /\ c.want_state_notify => \E k \in P : run[r].pending[k].want_state_notify
         /\ c.want_5_notify => \E k \in P : run[r].pending[k].want_5_notify
         /\ (c.want_state_notify /\ c.want_5_notify) =>
               \E k, l \in P : /\ k # l
                               /\ run[r].pending[k].want_state_notify
                               /\ run[r].pending[l].want_5_notify

\* C24: in a check of a document at exactly 5 days left, the five-day
\* warning fires when a warning was delivered for the document before and
\* none for the expiry it has now (renewal re-arms), and it does not fire
\* when a warning was delivered for the expiry it has now.
C24_FiveDayRearms ==
  \A r \in Runners :
    (Deciding(r) /\ run[r].cur[1].d = Some(5)) =>
      LET c == run[r].cur[1]
          delivered == sent5[c.doc.id]
      IN /\ (delivered # {} /\ c.doc.fecha_vencimiento \notin delivered)
               => c.want_5_notify
         /\ c.doc.fecha_vencimiento \in delivered => ~c.want_5_notify

\* The last check of runner r read last_state `from` and computed `to`.
Crossed(r, from, to) ==
  /\ run[r].cur # None
  /\ run[r].cur[1].n # None
  /\ run[r].cur[1].n[1].last_state = from
  /\ run[r].cur[1].state = to

\* C25: a check that computes Amarillo for a document whose state at the
\* check before was Verde puts exactly one message of that document in the
\* pending list; its subject names the document and the state Amarillo, and
\* its body names the change Verde -> Amarillo.
C25_GreenToYellowOneMessage ==
  \A r \in Runners :
    Crossed(r, "Verde", "Amarillo") =>
      LET c == run[r].cur[1]
          P == PendingFor(r, c.doc.id)
      IN /\ Cardinality(P) = 1
         /\ \A k \in P :
               /\ run[r].pending[k].subj.state = "Amarillo"
               /\ run[r].pending[k].subj.tipo = c.doc.tipo
               /\ run[r].pending[k].subj.vence = c.doc.fecha_vencimiento
               /\ run[r].pending[k].body.state = "Amarillo"
               /\ run[r].pending[k].body.cambio = <<"Verde", "Amarillo">>
               /\ ~run[r].pending[k].body.alerta5

\* C25 witness: a real run delivered the message of a document that went
\* from Verde to Amarillo.
C25_Witness ==
  \E r \in Runners :
    /\ Crossed(r, "Verde", "Amarillo")
    /\ run[r].pc = "done"
    /\ run[r].sent = 1
    /\ run[r].pending[1].doc_id = run[r].cur[1].doc.id
    /\ run[r].pending[1].subj.state = "Amarillo"

\* The place of a type in DOC_TYPES.
TypeIndex(tipo) == CHOOSE i \in 1..Len(DOC_TYPES) : DOC_TYPES[i] = tipo

\* The document row i is skipped by a check run: there is no row, or the row
\* has no expiry.
Skipped(i) ==
  documentos[i] = None \/ documentos[i][1].fecha_vencimiento.fmt = "null"

\* C26: a run checks no document that is absent or has no expiry: nothing
\* of it is in the pending list, in the transaction or in notificaciones;
\* every document it checks or is about to check has an expiry; the
\* documents of one vehicle are checked in the order of DOC_TYPES; and a
\* committed scan has left no other document out.
C26_SkipsAndOrder ==
  \A r \in Runners :
    /\ \A i \in DocIds :
          Skipped(i) => /\ PendingFor(r, i) = {}
                        /\ run[r].tx[i] = None
                        /\ notificaciones[i] = None
    /\ run[r].cur # None => ~Skipped(run[r].cur[1].doc.id)
    /\ \A k \in 1..Len(run[r].todo) : ~Skipped(run[r].todo[k].id)
    /\ \A k, l \in 1..Len(run[r].todo) :
          (k < l /\ run[r].todo[k].vehiculo_id = run[r].todo[l].vehiculo_id) =>
             TypeIndex(run[r].todo[k].tipo) < TypeIndex(run[r].todo[l].tipo)
    /\ (run[r].cur # None /\ run[r].todo # <<>>
         /\ run[r].cur[1].doc.vehiculo_id = Head(run[r].todo).vehiculo_id) =>
           TypeIndex(run[r].cur[1].doc.tipo) < TypeIndex(Head(run[r].todo).tipo)
    /\ (Latest(r) /\ run[r].committed) =>
          \A i \in DocIds : ~Skipped(i) => notificaciones[i] # None

\* C26 witness: a scan is committed over a vehicle whose first type has no
\* expiry and whose second type has a date: the second has its row and its
\* message, the first has nothing.
C26_Witness ==
  \E r \in Runners :
    /\ Latest(r) /\ run[r].committed
    /\ documentos[2] # None /\ Skipped(2)
    /\ documentos[1] # None /\ ~Skipped(1)
    /\ notificaciones[1] # None /\ notificaciones[2] = None
    /\ PendingFor(r, 1) # {} /\ PendingFor(r, 2) = {}

\* The row n with last_notified_state replaced by s.
WithNotified(n, s) ==
  IF n = None THEN None ELSE Some([n[1] EXCEPT !.last_notified_state = s])

\* What is left of a row when last_notified_state is put aside.
Low(n) ==
  IF n = None THEN None
  ELSE Some([last_state |-> n[1].last_state, last_expiry |-> n[1].last_expiry,
             last_notified_5_expiry |-> n[1].last_notified_5_expiry])

\* C27: whatever last_notified_state the row of a document holds, a check
\* of the document decides the same and appends the same to pending, its
\* write leaves the same last_state, last_expiry and last_notified_5_expiry,
\* and the marking of a pending entry leaves the same three values.
C27_NotifiedStateIsNotRead ==
  \A r \in Runners, s \in {NULL, "Verde", "Amarillo", "Rojo"} :
    /\ Deciding(r) =>
         LET c == run[r].cur[1]
             n2 == WithNotified(c.n, s)
             chk == check_document(r, c.doc, n2, today)
             P == PendingFor(r, c.doc.id)
         IN /\ [chk.cur EXCEPT !.n = Low(@)] = [c EXCEPT !.n = Low(@)]
            /\ chk.pending = [k \in 1..Cardinality(P) |-> run[r].pending[Len(run[r].pending)]]
            /\ Low(snapshot_upsert(n2, c.state, c.doc.fecha_vencimiento, today))
                 = Low(snapshot_upsert(c.n, c.state, c.doc.fecha_vencimiento, today))
    /\ \A k \in 1..Len(run[r].pending) :
         LET p == run[r].pending[k]
             row == View(r)[p.doc_id]
         IN Low(mark_notified(WithNotified(row, s), p)) = Low(mark_notified(row, p))

\* C27 witness: a check decides on a document whose row holds a
\* last_notified_state; the state is the one of the check before, and no
\* escalation fires.
C27_Witness ==
  \E r \in Runners :
    /\ Deciding(r)
    /\ run[r].cur[1].n # None
    /\ run[r].cur[1].n[1].last_notified_state # NULL
    /\ run[r].cur[1].n[1].last_state = run[r].cur[1].state
    /\ ~run[r].cur[1].want_state_notify

\* Runner r made the scan of a real run right after a preview run that ended
\* normally, with no change of documents or date in between.
RealAfterPreview(r) ==
  /\ Recheck(r)
  /\ prev.pc = "done" /\ prev.dry_run
  /\ ~run[r].dry_run /\ run[r].committed

\* C28: in a real run right after a preview run, over unchanged documents
\* on the same day, no escalation that the preview reported is pending
\* again, and every five-day warning that the preview reported is pending
\* again, for the same document and expiry.
C28_PreviewConsumesEscalationsOnly ==
  \A r \in Runners :
    RealAfterPreview(r) =>
      \A k \in 1..Len(prev.pending) :
        LET p == prev.pending[k]
        IN /\ p.want_state_notify =>
                \A l \in PendingFor(r, p.doc_id) : ~run[r].pending[l].want_state_notify
           /\ p.want_5_notify =>
                \E l \in PendingFor(r, p.doc_id) :
                   /\ run[r].pending[l].want_5_notify
                   /\ run[r].pending[l].expiry_s = p.expiry_s

\* C28 witness: the preview reported an escalation together with a five-day
\* warning; the real run after it has the five-day warning pending and no
\* escalation.
C28_Witness ==
  \E r \in Runners :
    /\ RealAfterPreview(r)
    /\ Len(prev.pending) = 1
    /\ prev.pending[1].want_state_notify /\ prev.pending[1].want_5_notify
    /\ Len(run[r].pending) = 1
    /\ run[r].pending[1].want_5_notify /\ ~run[r].pending[1].want_state_notify

\* C29: in the committed table last_notified_state of every row is absent,
\* Amarillo or Rojo, and last_notified_5_expiry of every row is absent or
\* the date string of a five-day warning of the same document: one that was
\* delivered, for an expiry whose fifth day before is today or past.
C29_MarkerValues ==
  \A i \in DocIds :
    notificaciones[i] # None =>
      /\ last_notified_state(i) \in {NULL, "Amarillo", "Rojo"}
      /\ last_notified_5_expiry(i) # NoDate =>
            /\ last_notified_5_expiry(i) \in sent5[i]
            /\ last_notified_5_expiry(i).fmt = "date"
            /\ last_notified_5_expiry(i).day - 5 <= today
            /\ i <= doc_seq

\* C29 witness: a row holds Amarillo as last_notified_state, and a row
\* holds a five-day marker.
C29_Witness ==
  /\ \E i \in DocIds : last_notified_state(i) = "Amarillo"
  /\ \E i \in DocIds : last_notified_5_expiry(i) # NoDate

\* The state of type DOC_TYPES[i] of vehicle v: the state of the days left
\* of a registered document, Rojo otherwise.
TypeState(v, i) ==
  IF ~Registered(v, i) THEN "Rojo"
  ELSE IF TypeScore(v, i) <= 15 THEN "Rojo"
  ELSE IF TypeScore(v, i) <= 30 THEN "Amarillo"
  ELSE "Verde"

\* The most urgent of the states of the five types of vehicle v.
MostUrgentState(v) ==
  CHOOSE st \in {"Rojo", "Amarillo", "Verde"} :
    /\ \E i \in 1..Len(DOC_TYPES) : TypeState(v, i) = st
    /\ \A i \in 1..Len(DOC_TYPES) : UrgencyRank(TypeState(v, i)) <= UrgencyRank(st)

\* C30: on the Dashboard the state of the item of every vehicle is the most
\* urgent of the states of its five types, every vehicle has one item, and
\* each counter is the number of vehicles whose most urgent state it names.
C30_DashboardStateIsMostUrgent ==
  calc.op = "dashboard" =>
    /\ \A v \in vehiculos : \E k \in 1..Len(calc.items) : calc.items[k].v = v
    /\ \A k \in 1..Len(calc.items) :
          calc.items[k].state = MostUrgentState(calc.items[k].v)
    /\ \A st \in {"Rojo", "Amarillo", "Verde"} :
          calc.kpis[st] = Cardinality({v \in vehiculos : MostUrgentState(v) = st})

\* C30 witness: the Dashboard shows a vehicle Verde whose five documents are
\* at 400 days, next to a vehicle that is Amarillo.
C30_Witness ==
  /\ calc.op = "dashboard"
  /\ \A i \in 1..Len(DOC_TYPES) : TypeScore(1, i) = 400
  /\ \E k \in 1..Len(calc.items) : calc.items[k].v = 1 /\ calc.items[k].state = "Verde"
  /\ calc.kpis["Verde"] = 1 /\ calc.kpis["Amarillo"] = 1

\* The first run from the known store, ended by runner r with its scan
\* committed.
FirstRunEnded(r) ==
  /\ Latest(r) /\ runCount = 1
  /\ run[r].committed
  /\ run[r].pc \in {"done", "failed", "config_error"}

Entries(ps) == {ps[k] : k \in 1..Len(ps)}

\* What the functions of reminders.py give for document i on the known store.
CliCheck(i) ==
  check_document("cli", documentos[i][1], PairStart(documentos)[i], today)

\* The notifications that reminders.py emits from the known store.
CliPending ==
  UNION {Entries(CliCheck(i).pending) : i \in {j \in DocIds : documentos[j] # None}}

\* The snapshots that the scan of reminders.py leaves from the known store.
CliScanTable ==
  [i \in DocIds |->
     IF documentos[i] = None THEN None
     ELSE snapshot_upsert(PairStart(documentos)[i], CliCheck(i).cur.state,
                          documentos[i][1].fecha_vencimiento, today)]

\* The snapshots after every notification of CliPending was marked.
CliMarkedTable ==
  [i \in DocIds |->
     IF \E p \in CliPending : p.doc_id = i
       THEN mark_notified(CliScanTable[i], CHOOSE p \in CliPending : p.doc_id = i)
       ELSE CliScanTable[i]]

\* C31: started from the same store on the same date with the same mode and
\* the same outcome of the deliveries, the manual check of app.py and main of
\* reminders.py emit the same set of notifications and leave the same
\* snapshots: whichever runner made the run, its notifications are the ones
\* that the functions of reminders.py give and the table is the scanned one,
\* with the markers set exactly when the whole batch was delivered, also when
\* a delivery failed in the middle of the batch.
C31_UiAndCliAgree ==
  \A r \in Runners :
    FirstRunEnded(r) =>
      /\ Entries(run[r].pending) = CliPending
      /\ notificaciones =
           IF run[r].pc = "done" /\ ~run[r].dry_run /\ run[r].sent = Len(run[r].pending)
             THEN CliMarkedTable ELSE CliScanTable

\* The manual check emitted two notifications, in the order opposite to the
\* one of reminders.py, the first was delivered and the second failed.
C31_Witness ==
  /\ FirstRunEnded("ui") /\ run["ui"].pc = "failed"
  /\ Len(run["ui"].pending) = 2 /\ run["ui"].sent = 1
  /\ run["ui"].pending[1].doc_id = 2
  /\ Entries(run["ui"].pending) = CliPending
  /\ notificaciones = CliScanTable /\ CliScanTable # CliMarkedTable

\* The first run from the known store, made by runner r, whatever its point.
FirstRun(r) == Latest(r) /\ runCount = 1

\* Document i has the snapshot of a check made on the day of the run.
CheckedToday(i) ==
  notificaciones[i] # None /\ notificaciones[i][1].last_checked_at = today

\* C32: the snapshot writes of one scan are committed together after the
\* last vehicle was scanned: until the commit, and after a failure during the
\* scan, every snapshot is as it was before the run and no message was sent;
\* from the commit on, every document with an expiry has its snapshot of this
\* run.
C32_ScanIsOneTransaction ==
  \A r \in Runners :
    FirstRun(r) =>
      /\ ~run[r].committed =>
            /\ notificaciones = PairStart(documentos)
            /\ run[r].sent = 0
            /\ \A i \in DocIds : sent5[i] = {} /\ ~escSent[i]
            /\ run[r].pc \in {"scan", "write", "crashed"}
            /\ run[r].pc = "crashed" => run[r].pending = <<>> /\ run[r].tx = NoTx
      /\ run[r].committed =>
            \A i \in DocIds : documentos[i] # None => CheckedToday(i)

\* A run over two documents that both fire failed during its scan: both
\* snapshots are the ones of 15 days before.
C32_Witness ==
  \E r \in Runners :
    /\ FirstRun(r) /\ run[r].pc = "crashed" /\ ~run[r].committed
    /\ \A i \in 1..2 : documentos[i] # None /\ ~CheckedToday(i)
    /\ Cardinality(CliPending) = 2
    /\ notificaciones = PairStart(documentos)

====
